---- MODULE Spec2Model ----
(***************************************************************************)
(* Account REST service (service/routes.py).  The request handlers are     *)
(* translated from src/service/routes.py; the Account entity and its       *)
(* storage (service/models.py) and the error handlers are not part of the  *)
(* available sources and are modelled from the specification (sections 3,  *)
(* 4.1 and 7).  One action per route; a sequential run handles one request *)
(* per step (Spec).  SpecC runs one PUT and one DELETE concurrently, each   *)
(* split at its storage calls.                                             *)
(***************************************************************************)
EXTENDS Integers, Sequences, FiniteSets, TLC

\* ---------------------------------------------------------------- bounds
MaxAccounts == 2      \* successful POSTs in a run (ids 1..MaxAccounts)
MaxDay == 2           \* days the server clock can show

\* ------------------------------------------------------------ HTTP codes
HTTP_200_OK == 200
HTTP_201_CREATED == 201
HTTP_204_NO_CONTENT == 204
HTTP_400_BAD_REQUEST == 400
HTTP_404_NOT_FOUND == 404
HTTP_415_UNSUPPORTED_MEDIA_TYPE == 415
HTTP_500_INTERNAL_SERVER_ERROR == 500

\* ------------------------------------------------------------ value sets
None == "None"        \* Python None / JSON null for a text field, header not sent
NoId == -1            \* Python None for an id
NoDate == 0           \* Python None for a date

MediaJSON == "application/json"
ContentTypes == {MediaJSON, "test/html", None}

\* JSON bodies: an object carries the keys that are present; an array is a
\* body that is not a mapping
JSONObject(m) == [type |-> "object", members |-> m]
JSONArray == [type |-> "array"]

Payloads ==
    { JSONObject([name |-> "n1", email |-> "e1", address |-> "a1", phone_number |-> "p1"]),
      JSONObject([name |-> "n2", email |-> "e2", id |-> 1]),
      JSONObject([name |-> "n1", address |-> "a1", id |-> 1]),
      JSONObject([email |-> "e1", phone_number |-> "p1"]),
      JSONArray }

PathIds == 0..MaxAccounts

\* ----------------------------------------------------------------- state
VARIABLES
    table,      \* the accounts table: rows in insertion order
    next_id,    \* the id the storage assigns to the next inserted row
    today,      \* the server's date (day number)
    request,    \* the request handled by the last step
    response,   \* its response
    created,    \* history: ids assigned by 201 POSTs, in order
    deleted,    \* history: ids removed by 204 DELETEs
    posted,     \* history: id -> payload and body of its POST, while no
                \* PUT or DELETE has been issued on that id
    put,        \* the PUT request in progress (concurrent runs)
    del         \* the DELETE request in progress (concurrent runs)

vars == <<table, next_id, today, request, response, created, deleted, posted,
          put, del>>

\* ------------------------------------------------ Account entity (models)
\* Account(): a fresh, unsaved entity
NewAccount ==
    [id |-> NoId, name |-> None, email |-> None, address |-> None,
     phone_number |-> None, date_joined |-> NoDate]

\* dict.get(key): the value, or None when the key is not present
Get(m, k) == IF k \in DOMAIN m THEN m[k] ELSE None

\* deserialize raises a validation error unless this holds
ValidPayload(data) ==
    /\ data.type = "object"
    /\ "name" \in DOMAIN data.members
    /\ "email" \in DOMAIN data.members

\* deserialize(payload): copies name, email, address, phone_number; the id
\* and date_joined are not taken from the client
deserialize(account, data) ==
    [account EXCEPT !.name = data.members.name, !.email = data.members.email,
                    !.address = Get(data.members, "address"),
                    !.phone_number = Get(data.members, "phone_number")]

\* date.isoformat()
isoformat(d) == "2026-11-0" \o ToString(d)

\* serialize(): the key-value map of the entity, date as ISO-8601 string
serialize(account) ==
    [id |-> account.id, name |-> account.name, email |-> account.email,
     address |-> account.address, phone_number |-> account.phone_number,
     date_joined |-> IF account.date_joined = NoDate THEN None
                     ELSE isoformat(account.date_joined)]

Ids(t) == {t[i].id : i \in 1..Len(t)}

\* find(id): the rows with that id (the first is the result; none: not found)
find(t, id) == SelectSeq(t, LAMBDA r : r.id = id)

\* all(): every row, in insertion order
all(t) == t

\* create(): inserts the entity with the generated id and, when it has no
\* date_joined, the creation date
created_entity(account, nid, day) ==
    [account EXCEPT !.id = nid,
                    !.date_joined = IF @ = NoDate THEN day ELSE @]

create(t, account, nid, day) == Append(t, created_entity(account, nid, day))

\* update(): writes the entity's fields to the row identified by its id;
\* date_joined is immutable after creation
updated_row(row, account) ==
    [row EXCEPT !.name = account.name, !.email = account.email,
                !.address = account.address,
                !.phone_number = account.phone_number]

update(t, account) ==
    [i \in 1..Len(t) |->
        IF t[i].id = account.id THEN updated_row(t[i], account) ELSE t[i]]

\* delete(): removes the row identified by the entity's id
delete(t, account) == SelectSeq(t, LAMBDA r : r.id # account.id)

\* ------------------------------------------------------- utility function
check_content_type(content_type, media_type) ==
    /\ content_type # None
    /\ content_type # ""
    /\ content_type = media_type

\* ------------------------------------------------------------- responses
NoLocation == <<"<no Location header>">>

Response(status, body, location) ==
    [status |-> status, body |-> body, location |-> location]

UnsupportedMediaType ==
    Response(HTTP_415_UNSUPPORTED_MEDIA_TYPE, "Content-Type must be application/json", NoLocation)
BadRequest == Response(HTTP_400_BAD_REQUEST, "Bad Request", NoLocation)
NotFound == Response(HTTP_404_NOT_FOUND, "Not Found", NoLocation)
InternalServerError ==
    Response(HTTP_500_INTERNAL_SERVER_ERROR, "Internal Server Error", NoLocation)
NoResponse == Response(0, None, NoLocation)

\* url_for of the read route for an id: /accounts/<id>, as path segments
CanonicalURL(id) == <<"accounts", ToString(id)>>

\* the Location the create handler sends: "/" (no path segments)
location_url(account) == <<>>

Request(method, id, content_type, payload) ==
    [method |-> method, id |-> id, content_type |-> content_type, payload |-> payload]

Result(t, nid, resp) == [table |-> t, next_id |-> nid, response |-> resp]

\* --------------------------------------------------------------- handlers
\* POST /accounts as it would be if the row were inserted before the payload
\* is validated
create_accounts_insert_first(t, nid, day, content_type, data) ==
    IF ~check_content_type(content_type, MediaJSON)
    THEN Result(t, nid, UnsupportedMediaType)
    ELSE IF ~ValidPayload(data)
    THEN Result(create(t, NewAccount, nid, day), nid + 1, BadRequest)
    ELSE LET account == created_entity(deserialize(NewAccount, data), nid, day)
             message == serialize(account)
         IN  Result(create(t, deserialize(NewAccount, data), nid, day), nid + 1,
                    Response(HTTP_201_CREATED, message, location_url(account)))

\* POST /accounts
create_accounts(t, nid, day, content_type, data) ==
    IF ~check_content_type(content_type, MediaJSON)
    THEN Result(t, nid, UnsupportedMediaType)
    ELSE IF ~ValidPayload(data)
    THEN Result(t, nid, BadRequest)
    ELSE LET account == created_entity(deserialize(NewAccount, data), nid, day)
             message == serialize(account)
         IN  Result(create(t, deserialize(NewAccount, data), nid, day), nid + 1,
                    Response(HTTP_201_CREATED, message, location_url(account)))

\* GET /accounts as it would be if the loop skipped the first row
list_all_account_skip_first(t) ==
    LET list == all(t)
        result == [i \in 1..(Len(list) - 1) |->
                      [id |-> list[i + 1].id, name |-> list[i + 1].name,
                       email |-> list[i + 1].email, address |-> list[i + 1].address,
                       phone_number |-> list[i + 1].phone_number,
                       date_joined |-> isoformat(list[i + 1].date_joined)]]
    IN  Response(HTTP_200_OK, result, NoLocation)

\* GET /accounts
list_all_account(t) ==
    LET list == all(t)
        result == [i \in 1..Len(list) |->
                      [id |-> list[i].id, name |-> list[i].name,
                       email |-> list[i].email, address |-> list[i].address,
                       phone_number |-> list[i].phone_number,
                       date_joined |-> isoformat(list[i].date_joined)]]
    IN  Response(HTTP_200_OK, result, NoLocation)

\* GET /accounts/<id> as it would be if it serialized the first row of the
\* table instead of the row found
read_an_account_first_row(t, id) ==
    LET found == find(t, id)
    IN  IF Len(found) > 0
        THEN Response(HTTP_200_OK, serialize(all(t)[1]), NoLocation)
        ELSE NotFound

\* GET /accounts/<id>
read_an_account(t, id) ==
    LET found == find(t, id)
    IN  IF Len(found) > 0
        THEN Response(HTTP_200_OK, serialize(found[1]), NoLocation)
        ELSE NotFound

\* the entity of the update handler after deserialize and the id pin
pinned(account, id) == [account EXCEPT !.id = id]

\* the entity after update(): its date_joined is the stored one
updated_entity(t, account) ==
    [account EXCEPT !.date_joined = find(t, account.id)[1].date_joined]

\* PUT as it would be without the call of update()
update_an_account_no_update(t, nid, id, content_type, data) ==
    IF ~check_content_type(content_type, MediaJSON)
    THEN Result(t, nid, UnsupportedMediaType)
    ELSE LET found == find(t, id)
         IN  IF Len(found) > 0
             THEN IF ~ValidPayload(data)
                  THEN Result(t, nid, BadRequest)
                  ELSE LET account == pinned(deserialize(NewAccount, data), id)
                           message == serialize(updated_entity(t, account))
                       IN  Result(t, nid, Response(HTTP_200_OK, message, NoLocation))
             ELSE Result(t, nid, NotFound)

\* PUT as it would be if the content type were checked after the lookup
update_an_account_find_first(t, nid, id, content_type, data) ==
    LET found == find(t, id)
    IN  IF Len(found) > 0
        THEN IF ~check_content_type(content_type, MediaJSON)
             THEN Result(t, nid, UnsupportedMediaType)
             ELSE IF ~ValidPayload(data)
             THEN Result(t, nid, BadRequest)
             ELSE LET account == pinned(deserialize(NewAccount, data), id)
                      message == serialize(updated_entity(t, account))
                  IN  Result(update(t, account), nid,
                             Response(HTTP_200_OK, message, NoLocation))
        ELSE Result(t, nid, NotFound)

\* PUT as it would be if an id that is not stored were inserted (upsert)
update_an_account_upsert(t, nid, id, content_type, data) ==
    IF ~check_content_type(content_type, MediaJSON)
    THEN Result(t, nid, UnsupportedMediaType)
    ELSE IF ~ValidPayload(data)
    THEN Result(t, nid, BadRequest)
    ELSE LET found == find(t, id)
             account == pinned(deserialize(NewAccount, data), id)
         IN  IF Len(found) > 0
             THEN Result(update(t, account), nid,
                         Response(HTTP_200_OK, serialize(updated_entity(t, account)),
                                  NoLocation))
             ELSE Result(create(t, account, id, 1), nid,
                         Response(HTTP_200_OK, serialize(created_entity(account, id, 1)),
                                  NoLocation))

\* PUT as it would be if the response serialized the row found instead of
\* the updated entity
update_an_account_stale(t, nid, id, content_type, data) ==
    IF ~check_content_type(content_type, MediaJSON)
    THEN Result(t, nid, UnsupportedMediaType)
    ELSE LET found == find(t, id)
         IN  IF Len(found) > 0
             THEN IF ~ValidPayload(data)
                  THEN Result(t, nid, BadRequest)
                  ELSE LET account == pinned(deserialize(NewAccount, data), id)
                           message == serialize(found[1])
                       IN  Result(update(t, account), nid,
                                  Response(HTTP_200_OK, message, NoLocation))
             ELSE Result(t, nid, NotFound)

\* PUT as it would be if the id of the payload, when it has one, were written
\* to the row instead of the id of the path
update_an_account_payload_id(t, nid, id, content_type, data) ==
    IF ~check_content_type(content_type, MediaJSON)
    THEN Result(t, nid, UnsupportedMediaType)
    ELSE LET found == find(t, id)
         IN  IF Len(found) > 0
             THEN IF ~ValidPayload(data)
                  THEN Result(t, nid, BadRequest)
                  ELSE LET account == pinned(deserialize(NewAccount, data), id)
                           new_id == IF "id" \in DOMAIN data.members
                                     THEN data.members.id ELSE id
                           message == serialize(updated_entity(t, account))
                       IN  Result([i \in 1..Len(t) |->
                                      IF t[i].id = id
                                      THEN [updated_row(t[i], account) EXCEPT !.id = new_id]
                                      ELSE t[i]],
                                  nid, Response(HTTP_200_OK, message, NoLocation))
             ELSE Result(t, nid, NotFound)

\* PUT /accounts/<id>
update_an_account(t, nid, id, content_type, data) ==
    IF ~check_content_type(content_type, MediaJSON)
    THEN Result(t, nid, UnsupportedMediaType)
    ELSE LET found == find(t, id)
         IN  IF Len(found) > 0
             THEN IF ~ValidPayload(data)
                  THEN Result(t, nid, BadRequest)
                  ELSE LET account == pinned(deserialize(NewAccount, data), id)
                           message == serialize(updated_entity(t, account))
                       IN  Result(update(t, account), nid,
                                  Response(HTTP_200_OK, message, NoLocation))
             ELSE Result(t, nid, NotFound)

\* DELETE as it would be if an id that is not stored were answered 204
delete_an_account_always_204(t, nid, id) ==
    LET found == find(t, id)
    IN  IF Len(found) > 0
        THEN Result(delete(t, found[1]), nid,
                    Response(HTTP_204_NO_CONTENT, "", NoLocation))
        ELSE Result(t, nid, Response(HTTP_204_NO_CONTENT, "", NoLocation))

\* DELETE /accounts/<id>
delete_an_account(t, nid, id) ==
    LET found == find(t, id)
    IN  IF Len(found) > 0
        THEN Result(delete(t, found[1]), nid,
                    Response(HTTP_204_NO_CONTENT, "", NoLocation))
        ELSE Result(t, nid, NotFound)

\* ------------------------------------------- handlers, step by step
\* a PUT or DELETE in progress: where it stands and what it holds
IdlePut ==
    [pc |-> "idle", id |-> NoId, content_type |-> None, data |-> JSONArray,
     account |-> NewAccount, response |-> NoResponse]
IdleDel == [pc |-> "idle", id |-> NoId, found |-> <<>>, response |-> NoResponse]

\* PUT: check_content_type on arrival
put_begin(id, content_type, data) ==
    IF ~check_content_type(content_type, MediaJSON)
    THEN [IdlePut EXCEPT !.pc = "done", !.id = id, !.content_type = content_type,
                         !.data = data, !.response = UnsupportedMediaType]
    ELSE [IdlePut EXCEPT !.pc = "find", !.id = id, !.content_type = content_type,
                         !.data = data]

\* PUT: find(id), then deserialize and the id pin when the row was found
put_find(t, p) ==
    LET found == find(t, p.id)
    IN  IF Len(found) > 0
        THEN IF ~ValidPayload(p.data)
             THEN [p EXCEPT !.pc = "done", !.response = BadRequest]
             ELSE [p EXCEPT !.pc = "update",
                            !.account = pinned(deserialize(NewAccount, p.data), p.id)]
        ELSE [p EXCEPT !.pc = "done", !.response = NotFound]

\* PUT as it would be if the entity were merged into the table: a row that
\* is no longer stored is inserted under the pinned id
put_update_merge(t, nid, account) ==
    IF account.id \in Ids(t)
    THEN Result(update(t, account), nid,
                Response(HTTP_200_OK, serialize(updated_entity(t, account)), NoLocation))
    ELSE Result(create(t, account, account.id, 1), nid,
                Response(HTTP_200_OK, serialize(created_entity(account, account.id, 1)),
                         NoLocation))

\* PUT: update() and the response; update() of a row that is no longer
\* stored is a storage error (500) and writes nothing
put_update(t, nid, account) ==
    IF account.id \in Ids(t)
    THEN Result(update(t, account), nid,
                Response(HTTP_200_OK, serialize(updated_entity(t, account)), NoLocation))
    ELSE Result(update(t, account), nid, InternalServerError)

\* DELETE: find(id)
del_find(t, d) ==
    LET found == find(t, d.id)
    IN  IF Len(found) > 0
        THEN [d EXCEPT !.pc = "delete", !.found = found]
        ELSE [d EXCEPT !.pc = "done", !.response = NotFound]

\* DELETE: found.delete() and the response; no-op when the row is gone
del_delete(t, nid, d) ==
    Result(delete(t, d.found[1]), nid, Response(HTTP_204_NO_CONTENT, "", NoLocation))

\* ------------------------------------------------------------------ Init
Init ==
    /\ table = <<>>
    /\ next_id = 1
    /\ today = 1
    /\ request = Request("NONE", NoId, None, JSONArray)
    /\ response = NoResponse
    /\ created = <<>>
    /\ deleted = {}
    /\ posted = [i \in {} |-> None]
    /\ put = IdlePut
    /\ del = IdleDel

\* --------------------------------------------------------------- actions
Untouched(p, id) == [i \in DOMAIN p \ {id} |-> p[i]]

CreateAccounts ==
    \E content_type \in ContentTypes, data \in Payloads :
        LET r == create_accounts(table, next_id, today, content_type, data)
            ok == r.response.status = HTTP_201_CREATED
        IN  /\ ok => next_id <= MaxAccounts
            /\ table' = r.table
            /\ next_id' = r.next_id
            /\ request' = Request("POST", NoId, content_type, data)
            /\ response' = r.response
            /\ created' = IF ok THEN Append(created, r.response.body.id) ELSE created
            /\ posted' = IF ok
                         THEN (r.response.body.id :>
                                  [payload |-> data, body |-> r.response.body]) @@ posted
                         ELSE posted
            /\ UNCHANGED <<today, deleted, put, del>>

ListAllAccount ==
    /\ request' = Request("LIST", NoId, None, JSONArray)
    /\ response' = list_all_account(table)
    /\ UNCHANGED <<table, next_id, today, created, deleted, posted, put, del>>

ReadAnAccount ==
    \E id \in PathIds :
        /\ request' = Request("GET", id, None, JSONArray)
        /\ response' = read_an_account(table, id)
        /\ UNCHANGED <<table, next_id, today, created, deleted, posted, put, del>>

UpdateAnAccount ==
    \E id \in PathIds, content_type \in ContentTypes, data \in Payloads :
        LET r == update_an_account(table, next_id, id, content_type, data)
        IN  /\ table' = r.table
            /\ next_id' = r.next_id
            /\ request' = Request("PUT", id, content_type, data)
            /\ response' = r.response
            /\ posted' = Untouched(posted, id)
            /\ UNCHANGED <<today, created, deleted, put, del>>

DeleteAnAccount ==
    \E id \in PathIds :
        LET r == delete_an_account(table, next_id, id)
        IN  /\ table' = r.table
            /\ next_id' = r.next_id
            /\ request' = Request("DELETE", id, None, JSONArray)
            /\ response' = r.response
            /\ deleted' = IF r.response.status = HTTP_204_NO_CONTENT
                          THEN deleted \cup {id} ELSE deleted
            /\ posted' = Untouched(posted, id)
            /\ UNCHANGED <<today, created, put, del>>

\* the server's date advances
Tick ==
    /\ today < MaxDay
    /\ today' = today + 1
    /\ UNCHANGED <<table, next_id, request, response, created, deleted, posted, put, del>>

Next ==
    \/ CreateAccounts
    \/ ListAllAccount
    \/ ReadAnAccount
    \/ UpdateAnAccount
    \/ DeleteAnAccount
    \/ Tick

Spec == Init /\ [][Next]_vars

\* ------------------------------------------------- concurrent PUT/DELETE
ValidPayloads == {data \in Payloads : ValidPayload(data)}

\* the store after successful POSTs of the payloads, one after the other
RECURSIVE PostAll(_)
PostAll(datas) ==
    IF datas = <<>>
    THEN Result(<<>>, 1, NoResponse)
    ELSE LET before == PostAll(SubSeq(datas, 1, Len(datas) - 1))
         IN  create_accounts(before.table, before.next_id, 1, MediaJSON,
                             datas[Len(datas)])

\* a store filled by POSTs; no PUT or DELETE has arrived yet
InitC ==
    \E n \in 0..MaxAccounts :
        \E datas \in [1..n -> ValidPayloads] :
            /\ table = PostAll(datas).table
            /\ next_id = PostAll(datas).next_id
            /\ created = [i \in 1..n |-> PostAll(datas).table[i].id]
            /\ today = 1
            /\ request = Request("NONE", NoId, None, JSONArray)
            /\ response = NoResponse
            /\ deleted = {}
            /\ posted = [i \in {} |-> None]
            /\ put = IdlePut
            /\ del = IdleDel

seqvars == <<next_id, today, request, response, created, posted>>

PutBegin ==
    \E id \in PathIds, content_type \in ContentTypes, data \in Payloads :
        /\ put.pc \in {"idle", "done"}
        /\ put' = put_begin(id, content_type, data)
        /\ UNCHANGED <<table, deleted, del, seqvars>>

PutFind ==
    /\ put.pc = "find"
    /\ put' = put_find(table, put)
    /\ UNCHANGED <<table, deleted, del, seqvars>>

PutUpdate ==
    /\ put.pc = "update"
    /\ LET r == put_update(table, next_id, put.account)
       IN  /\ table' = r.table
           /\ put' = [put EXCEPT !.pc = "done", !.response = r.response]
    /\ UNCHANGED <<deleted, del, seqvars>>

DelBegin ==
    \E id \in PathIds :
        /\ del.pc \in {"idle", "done"}
        /\ del' = [IdleDel EXCEPT !.pc = "find", !.id = id]
        /\ UNCHANGED <<table, deleted, put, seqvars>>

DelFind ==
    /\ del.pc = "find"
    /\ del' = del_find(table, del)
    /\ UNCHANGED <<table, deleted, put, seqvars>>

DelDelete ==
    /\ del.pc = "delete"
    /\ LET r == del_delete(table, next_id, del)
       IN  /\ table' = r.table
           /\ del' = [del EXCEPT !.pc = "done", !.response = r.response]
    /\ deleted' = deleted \cup {del.id}
    /\ UNCHANGED <<put, seqvars>>

NextC ==
    \/ PutBegin
    \/ PutFind
    \/ PutUpdate
    \/ DelBegin
    \/ DelFind
    \/ DelDelete

SpecC == InitC /\ [][NextC]_vars

\* ---------------------------------------------------------- properties
\* a step that handles a request (every action but Tick)
RequestStep == today' = today

Range(q) == {q[i] : i \in 1..Len(q)}

\* the payload is a JSON object that contains name and email
HasNameAndEmail(data) ==
    data.type = "object" /\ {"name", "email"} \subseteq DOMAIN data.members

\* name, email, address and phone_number of a response body equal those of a
\* payload (a key the payload leaves out is null in the body)
BodyMatchesPayload(body, data) ==
    /\ body.name = Get(data.members, "name")
    /\ body.email = Get(data.members, "email")
    /\ body.address = Get(data.members, "address")
    /\ body.phone_number = Get(data.members, "phone_number")

SameAccount(b1, b2) ==
    /\ b1.id = b2.id
    /\ b1.name = b2.name
    /\ b1.email = b2.email
    /\ b1.address = b2.address
    /\ b1.phone_number = b2.phone_number

C2_PutIsStored ==
    (request.method = "PUT" /\ response.status = HTTP_200_OK)
    => LET got == read_an_account(table, request.id)
       IN  /\ got.status = HTTP_200_OK
           /\ got.body.id = request.id
           /\ BodyMatchesPayload(got.body, request.payload)
           /\ \A i \in 1..Len(table) :
                 table[i].id = request.id
                 => BodyMatchesPayload(table[i], request.payload)

\* a 200 PUT that replaced an address by null, with another row present
C2_Witness ==
    /\ request.method = "PUT"
    /\ response.status = HTTP_200_OK
    /\ "address" \notin DOMAIN request.payload.members
    /\ Len(table) >= 2
    /\ \E i \in 1..Len(table) : table[i].id # request.id /\ table[i].address # None

\* C3 as stated: a POST whose payload lacks name or email returns 400 and
\* leaves the list of accounts as it was, whatever its Content-Type.
C3_Original ==
    [][(/\ RequestStep
        /\ request'.method = "POST"
        /\ ~HasNameAndEmail(request'.payload))
       => /\ response'.status = HTTP_400_BAD_REQUEST
          /\ list_all_account(table').body = list_all_account(table).body]_vars

\* C3: a POST sent with Content-Type application/json whose payload lacks
\* name or lacks email returns 400 and the accounts GET /accounts returns are
\* the same before and after.
C3_BadRequest ==
    [][(/\ RequestStep
        /\ request'.method = "POST"
        /\ request'.content_type = MediaJSON
        /\ ~HasNameAndEmail(request'.payload))
       => /\ response'.status = HTTP_400_BAD_REQUEST
          /\ list_all_account(table').body = list_all_account(table).body]_vars

\* a 400 POST of an object without email on a store that holds an account
C3_Witness ==
    /\ request.method = "POST"
    /\ request.content_type = MediaJSON
    /\ request.payload.type = "object"
    /\ "email" \notin DOMAIN request.payload.members
    /\ response.status = HTTP_400_BAD_REQUEST
    /\ Len(table) >= 1

\* C4: a POST or PUT whose Content-Type is missing or is not application/json
\* returns 415 and leaves the store unchanged, whatever the body and whether
\* or not the id of the PUT exists.
C4_UnsupportedMediaType ==
    [][(/\ RequestStep
        /\ request'.method \in {"POST", "PUT"}
        /\ request'.content_type # MediaJSON)
       => /\ response'.status = HTTP_415_UNSUPPORTED_MEDIA_TYPE
          /\ table' = table]_vars

\* a 415 PUT without Content-Type, for an id that is not stored, with a body
\* that is not valid either
C4_Witness ==
    /\ request.method = "PUT"
    /\ request.content_type = None
    /\ request.id \notin Ids(table)
    /\ ~HasNameAndEmail(request.payload)
    /\ response.status = HTTP_415_UNSUPPORTED_MEDIA_TYPE
    /\ Len(table) >= 1

\* C5: a PUT with Content-Type application/json on an id that is not in the
\* store returns 404 and the stored accounts are the same before and after,
\* whatever the body.
C5_PutNotFound ==
    [][(/\ RequestStep
        /\ request'.method = "PUT"
        /\ request'.content_type = MediaJSON
        /\ request'.id \notin Ids(table))
       => /\ response'.status = HTTP_404_NOT_FOUND
          /\ table' = table]_vars

\* a 404 PUT of a valid payload on an id that is not stored
C5_Witness ==
    /\ request.method = "PUT"
    /\ request.content_type = MediaJSON
    /\ HasNameAndEmail(request.payload)
    /\ request.id \notin Ids(table)
    /\ response.status = HTTP_404_NOT_FOUND
    /\ Len(table) >= 1

\* C6: a DELETE on a stored id returns 204 and removes exactly that row; a
\* DELETE on an id that is not stored returns 404 and changes nothing; every
\* later DELETE or GET on an id that a DELETE removed returns 404.
C6_Delete ==
    [][RequestStep =>
        /\ (request'.method = "DELETE" /\ request'.id \in Ids(table))
           => /\ response'.status = HTTP_204_NO_CONTENT
              /\ table' = SelectSeq(table, LAMBDA r : r.id # request'.id)
        /\ (request'.method = "DELETE" /\ request'.id \notin Ids(table))
           => /\ response'.status = HTTP_404_NOT_FOUND
              /\ table' = table
        /\ (request'.method \in {"GET", "DELETE"} /\ request'.id \in deleted)
           => response'.status = HTTP_404_NOT_FOUND]_vars

\* a second DELETE of a removed id answered 404 while another row is stored
C6_Witness ==
    /\ request.method = "DELETE"
    /\ request.id \in deleted
    /\ response.status = HTTP_404_NOT_FOUND
    /\ Len(table) >= 1

\* C7: the Location header of a 201 POST is the URL of GET /accounts/{id} for
\* the id assigned to the created account.
C7_Location ==
    (request.method = "POST" /\ response.status = HTTP_201_CREATED)
    => response.location = CanonicalURL(response.body.id)

\* C8: the 200 response of a PUT carries name, email, address and
\* phone_number equal to the payload's and the id of the path, also when the
\* payload carries another id.
C8_PutResponse ==
    (request.method = "PUT" /\ response.status = HTTP_200_OK)
    => /\ response.body.id = request.id
       /\ BodyMatchesPayload(response.body, request.payload)

\* a 200 PUT whose payload carries an id other than the path's
C8_Witness ==
    /\ request.method = "PUT"
    /\ response.status = HTTP_200_OK
    /\ "id" \in DOMAIN request.payload.members
    /\ request.payload.members.id # request.id

\* C9: GET /accounts returns 200 with exactly one entry for each id that a
\* 201 POST assigned and no 204 DELETE removed since.
C9_ListAll ==
    request.method = "LIST"
    => /\ response.status = HTTP_200_OK
       /\ Range(created) \ deleted = {response.body[i].id : i \in 1..Len(response.body)}
       /\ \A i, j \in 1..Len(response.body) :
             response.body[i].id = response.body[j].id => i = j

\* a list that holds an account after another one was deleted
C9_Witness ==
    /\ request.method = "LIST"
    /\ Len(response.body) >= 1
    /\ deleted # {}

\* a list with no entry
C9_EmptyList ==
    /\ request.method = "LIST"
    /\ response.body = <<>>
    /\ created # <<>>

IdSeq(t) == [i \in 1..Len(t) |-> t[i].id]

UniqueIds(t) == \A i, j \in 1..Len(t) : t[i].id = t[j].id => i = j

\* C10: no two stored accounts share an id, every stored id was assigned by
\* exactly one 201 POST, and a request leaves the ids of the rows as they
\* were, except that a 204 DELETE removes one row and a 201 POST adds one row
\* under an id that no POST assigned before.
C10_IdsAssignedOnce ==
    [][/\ UniqueIds(table')
       /\ Ids(table') \subseteq Range(created')
       /\ \A i, j \in 1..Len(created') : created'[i] = created'[j] => i = j
       /\ \/ IdSeq(table') = IdSeq(table)
          \/ /\ request'.method = "DELETE"
             /\ response'.status = HTTP_204_NO_CONTENT
             /\ IdSeq(table') = SelectSeq(IdSeq(table), LAMBDA i : i # request'.id)
          \/ /\ request'.method = "POST"
             /\ response'.status = HTTP_201_CREATED
             /\ response'.body.id \notin Range(created)
             /\ IdSeq(table') = Append(IdSeq(table), response'.body.id)]_vars

\* a 200 PUT on one of two stored rows with a payload that carries the id of
\* the other row
C10_Witness ==
    /\ request.method = "PUT"
    /\ response.status = HTTP_200_OK
    /\ "id" \in DOMAIN request.payload.members
    /\ request.payload.members.id # request.id
    /\ request.payload.members.id \in Ids(table)

====
